---------------------------- MODULE Spec2Model ----------------------------
(***************************************************************************)
(* Model of the helloworld-click-client session loop (cli_ctrl.py) and of  *)
(* the leaf components it drives: the response parser (resp_fmt.py), the   *)
(* command runner (cmd_run.py) and the orchestrator client                 *)
(* (orchestrator_comm.py).                                                 *)
(*                                                                         *)
(* Text is modelled by TLA+ strings, character by character.  The backtick *)
(* character cannot be written inside a TLA+ string, so BT stands for it   *)
(* everywhere (BT is not used for anything else in the model's texts).     *)
(* Python's None is the value None, Python exceptions are results whose    *)
(* field exc is TRUE.                                                      *)
(***************************************************************************)
EXTENDS Integers, Sequences, FiniteSets, TLC

(***************************************************************************)
(* Bounds of the model.                                                    *)
(***************************************************************************)
\* number of loop iterations explored
MaxIter == 3
\* the clarify prompt is answered with texts of up to 256 + MaxOver characters
MaxOver == 2
\* the command runner is called directly on every string of up to MaxCmdLen
\* characters of CmdAlphabet
MaxCmdLen == 3
\* a reply text is put together from up to MaxParts pieces of prose and blocks
MaxParts == 3
\* extract_command_text is called directly on every string of up to
\* MaxTextLen characters of TextAlphabet
MaxTextLen == 5

(***************************************************************************)
(* Values.                                                                 *)
(***************************************************************************)
\* Python's None
None == "<None>"
\* a local variable that has not been assigned yet
Unset == "<unset>"
\* the backtick character
BT == "~"
\* the triple-backtick delimiter
Fence == BT \o BT \o BT

\* truth value of an Optional[str]: None and "" are false
Truthy(s) == s # None /\ s # ""

Char(s, i) == SubSeq(s, i, i)

RECURSIVE Rep(_, _)
\* the text c repeated n times
Rep(c, n) ==
    IF n <= 0 THEN ""
    ELSE IF n % 2 = 0 THEN LET h == Rep(c, n \div 2) IN h \o h
    ELSE c \o Rep(c, n - 1)

\* the characters Python's str.strip() removes and the regex class \s matches
WhiteSpace == {" ", "\t", "\n", "\r", "\f"}
\* the characters shlex treats as separators (shlex.whitespace)
ShlexWhitespace == {" ", "\t", "\r", "\n"}
\* the regex class [\w-]
TagChars ==
    {"a","b","c","d","e","f","g","h","i","j","k","l","m",
     "n","o","p","q","r","s","t","u","v","w","x","y","z",
     "A","B","C","D","E","F","G","H","I","J","K","L","M",
     "N","O","P","Q","R","S","T","U","V","W","X","Y","Z",
     "0","1","2","3","4","5","6","7","8","9","_","-"}

\* Python's s[:n]
Prefix(s, n) == SubSeq(s, 1, IF Len(s) < n THEN Len(s) ELSE n)

RECURSIVE LStripFrom(_, _)
\* first index >= i of s that holds no white space (Len(s) + 1 when none)
LStripFrom(s, i) ==
    IF i > Len(s) THEN i
    ELSE IF Char(s, i) \in WhiteSpace THEN LStripFrom(s, i + 1) ELSE i

RECURSIVE RStripFrom(_, _)
\* last index <= j of s that holds no white space (0 when none)
RStripFrom(s, j) ==
    IF j < 1 THEN 0
    ELSE IF Char(s, j) \in WhiteSpace THEN RStripFrom(s, j - 1) ELSE j

\* str.strip()
Strip(s) == SubSeq(s, LStripFrom(s, 1), RStripFrom(s, Len(s)))

\* sub occurs in s at an index >= i
Contains(s, sub, i) ==
    \E k \in i..(Len(s) - Len(sub) + 1) : SubSeq(s, k, k + Len(sub) - 1) = sub

\* Python's "sub in s"
In(sub, s) == Contains(s, sub, 1)

\* Python's s.endswith(sub)
EndsWith(s, sub) ==
    Len(sub) <= Len(s) /\ SubSeq(s, Len(s) - Len(sub) + 1, Len(s)) = sub

(***************************************************************************)
(* resp_fmt.py: the response parser.                                       *)
(***************************************************************************)
FenceAt(s, i) == i + 2 <= Len(s) /\ SubSeq(s, i, i + 2) = Fence

RECURSIVE FindFence(_, _)
\* index of the first triple backtick of s that starts at an index >= i,
\* 0 when there is none
FindFence(s, i) ==
    IF i + 2 > Len(s) THEN 0
    ELSE IF FenceAt(s, i) THEN i ELSE FindFence(s, i + 1)

RECURSIVE TagEnd(_, _)
\* (?:[\w-]+)? greedy: first index >= i that holds no tag character
TagEnd(s, i) ==
    IF i > Len(s) THEN i
    ELSE IF Char(s, i) \in TagChars THEN TagEnd(s, i + 1) ELSE i

RECURSIVE SkipToNewline(_, _)
\* \s*?\n lazy: index of the first newline at or after i that only white
\* space separates from i, 0 when there is none
SkipToNewline(s, i) ==
    IF i > Len(s) THEN 0
    ELSE IF Char(s, i) = "\n" THEN i
    ELSE IF Char(s, i) \in WhiteSpace THEN SkipToNewline(s, i + 1)
    ELSE 0

\* one attempt of triple_tick_pattern at index i: the index of the last
\* character of the match, 0 when the pattern does not match at i
BlockMatchEnd(s, i) ==
    IF ~FenceAt(s, i) THEN 0
    ELSE LET nl == SkipToNewline(s, TagEnd(s, i + 3))
         IN  IF nl = 0 THEN 0
             ELSE LET q == FindFence(s, nl + 1)
                  IN  IF q = 0 THEN 0 ELSE q + 2

RECURSIVE FindIter(_, _)
\* re.finditer(triple_tick_pattern, s) from index i: group(0) of the
\* non-overlapping matches, leftmost first
FindIter(s, i) ==
    IF i > Len(s) THEN << >>
    ELSE LET e == BlockMatchEnd(s, i)
         IN  IF e = 0 THEN FindIter(s, i + 1)
             ELSE <<SubSeq(s, i, e)>> \o FindIter(s, e + 1)

\* extract_code_blocks falling back to the whole text when nothing matches
extract_code_blocks_whole_text(response_text) ==
    IF FindIter(response_text, 1) = << >> /\ Strip(response_text) # ""
    THEN <<response_text>>
    ELSE FindIter(response_text, 1)

extract_code_blocks(response_text) == FindIter(response_text, 1)

RECURSIVE ContentEnd(_, _, _)
\* (.*?)\n?\s*?``` lazy: the first index p in c..q such that only white
\* space lies between p and the closing delimiter at q
ContentEnd(s, c, q) ==
    IF q > c /\ Char(s, q - 1) \in WhiteSpace THEN ContentEnd(s, c, q - 1)
    ELSE q

\* one attempt of the triple-backtick pattern of extract_command_text at
\* index i: <<TRUE, group(1)>> or <<FALSE, "">>
CommandMatchAt(s, i) ==
    IF ~FenceAt(s, i) THEN <<FALSE, "">>
    ELSE LET t == TagEnd(s, i + 3)
             c == IF t <= Len(s) /\ Char(s, t) = "\n" THEN t + 1 ELSE t
             q == FindFence(s, c)
         IN  IF q = 0 THEN <<FALSE, "">>
             ELSE <<TRUE, SubSeq(s, c, ContentEnd(s, c, q) - 1)>>

RECURSIVE SearchTriple(_, _)
\* re.search of the triple-backtick pattern from index i
SearchTriple(s, i) ==
    IF i > Len(s) THEN <<FALSE, "">>
    ELSE LET m == CommandMatchAt(s, i)
         IN  IF m[1] THEN m ELSE SearchTriple(s, i + 1)

RECURSIVE NextTick(_, _)
\* index of the first backtick of s at an index >= i, 0 when none
NextTick(s, i) ==
    IF i > Len(s) THEN 0
    ELSE IF Char(s, i) = BT THEN i ELSE NextTick(s, i + 1)

RECURSIVE SearchSingle(_, _)
\* re.search(r"`([^`]+)`", s) from index i
SearchSingle(s, i) ==
    LET a == NextTick(s, i)
    IN  IF a = 0 THEN <<FALSE, "">>
        ELSE LET b == NextTick(s, a + 1)
             IN  IF b = 0 THEN <<FALSE, "">>
                 ELSE IF b > a + 1 THEN <<TRUE, SubSeq(s, a + 1, b - 1)>>
                 ELSE SearchSingle(s, a + 1)

\* extract_command_text without its last return
extract_command_text_no_fallback(code_block) ==
    LET match == SearchTriple(code_block, 1)
        match_single == SearchSingle(code_block, 1)
    IN  IF match[1] THEN Strip(match[2])
        ELSE IF match_single[1] THEN Strip(match_single[2])
        ELSE ""

extract_command_text(code_block) ==
    LET match == SearchTriple(code_block, 1)
        match_single == SearchSingle(code_block, 1)
    IN  IF match[1] THEN Strip(match[2])
        ELSE IF match_single[1] THEN Strip(match_single[2])
        ELSE Strip(code_block)

(***************************************************************************)
(* cmd_run.py: the command runner.                                         *)
(***************************************************************************)
RECURSIVE ShlexScan(_, _, _, _, _)
\* shlex.split(s) in POSIX mode, from index i: state is "ws" between
\* tokens, "word" inside a token, "quote" inside a double-quoted part of a
\* token; err is the ValueError "No closing quotation".  (The model's
\* commands hold no backslash and no single quote.)
ShlexScan(s, i, state, tok, acc) ==
    IF i > Len(s)
    THEN IF state = "quote" THEN [err |-> TRUE, args |-> << >>]
         ELSE IF state = "word" THEN [err |-> FALSE, args |-> Append(acc, tok)]
         ELSE [err |-> FALSE, args |-> acc]
    ELSE LET c == Char(s, i)
         IN  IF state = "quote"
             THEN IF c = "\"" THEN ShlexScan(s, i + 1, "word", tok, acc)
                  ELSE ShlexScan(s, i + 1, "quote", tok \o c, acc)
             ELSE IF c \in ShlexWhitespace
             THEN IF state = "word"
                  THEN ShlexScan(s, i + 1, "ws", "", Append(acc, tok))
                  ELSE ShlexScan(s, i + 1, "ws", "", acc)
             ELSE IF c = "\"" THEN ShlexScan(s, i + 1, "quote", tok, acc)
             ELSE ShlexScan(s, i + 1, "word", tok \o c, acc)

shlex_split(s) == ShlexScan(s, 1, "ws", "", << >>)

\* What subprocess.run does with an argv: it raises FileNotFoundError,
\* PermissionError or another exception, or the child runs to completion
\* with the raw (untrimmed) streams and the exit code.
OsBehaviours ==
    { [kind |-> "FileNotFoundError", stdout |-> "", stderr |-> "", returncode |-> 0],
      [kind |-> "PermissionError", stdout |-> "", stderr |-> "", returncode |-> 0],
      [kind |-> "OSError", stdout |-> "", stderr |-> "", returncode |-> 0],
      [kind |-> "completed", stdout |-> "hi\n", stderr |-> "", returncode |-> 0],
      [kind |-> "completed", stdout |-> "", stderr |-> "", returncode |-> 0],
      [kind |-> "completed", stdout |-> "", stderr |-> "warn\n", returncode |-> 0],
      [kind |-> "completed", stdout |-> "", stderr |-> "", returncode |-> 1],
      [kind |-> "completed", stdout |-> " out \n", stderr |-> "oops\n", returncode |-> 2] }

\* run_command without its last handler (except Exception)
run_command_no_catch_all(command_str, os) ==
    LET split == shlex_split(command_str)
        args == split.args
    IN  IF split.err
        THEN [stdout |-> None, stderr |-> "", returncode |-> -1,
              spawned |-> FALSE, exc |-> TRUE]
        ELSE IF args = << >>
        THEN [stdout |-> "", stderr |-> "Empty command string",
              returncode |-> -1, spawned |-> FALSE, exc |-> FALSE]
        ELSE IF os.kind = "FileNotFoundError"
        THEN [stdout |-> None,
              stderr |-> "Error: Command not found: '" \o args[1]
                         \o "'. Is it installed and in PATH?",
              returncode |-> 127, spawned |-> TRUE, exc |-> FALSE]
        ELSE IF os.kind = "PermissionError"
        THEN [stdout |-> None,
              stderr |-> "Error: Permission denied executing command: '"
                         \o args[1] \o "'.",
              returncode |-> 126, spawned |-> TRUE, exc |-> FALSE]
        ELSE IF os.kind = "OSError"
        THEN [stdout |-> None, stderr |-> "", returncode |-> -1,
              spawned |-> TRUE, exc |-> TRUE]
        ELSE [stdout |-> Strip(os.stdout), stderr |-> Strip(os.stderr),
              returncode |-> os.returncode, spawned |-> TRUE, exc |-> FALSE]

\* run_command(command_str) under the behaviour os of the operating system.
\* spawned: subprocess.run was called for the command.  exc: an exception
\* left run_command.
run_command(command_str, os) ==
    LET split == shlex_split(command_str)
        args == split.args
    IN  IF split.err
        THEN [stdout |-> None,
              stderr |-> "Error running command '" \o command_str
                         \o "': ValueError: No closing quotation",
              returncode |-> -1, spawned |-> FALSE, exc |-> FALSE]
        ELSE IF args = << >>
        THEN [stdout |-> "", stderr |-> "Empty command string",
              returncode |-> -1, spawned |-> FALSE, exc |-> FALSE]
        ELSE IF os.kind = "FileNotFoundError"
        THEN [stdout |-> None,
              stderr |-> "Error: Command not found: '" \o args[1]
                         \o "'. Is it installed and in PATH?",
              returncode |-> 127, spawned |-> TRUE, exc |-> FALSE]
        ELSE IF os.kind = "PermissionError"
        THEN [stdout |-> None,
              stderr |-> "Error: Permission denied executing command: '"
                         \o args[1] \o "'.",
              returncode |-> 126, spawned |-> TRUE, exc |-> FALSE]
        ELSE IF os.kind = "OSError"
        THEN [stdout |-> None,
              stderr |-> "Error running command '" \o command_str
                         \o "': OSError: ",
              returncode |-> -1, spawned |-> TRUE, exc |-> FALSE]
        ELSE [stdout |-> Strip(os.stdout), stderr |-> Strip(os.stderr),
              returncode |-> os.returncode, spawned |-> TRUE, exc |-> FALSE]

\* no command has been run
NoResult ==
    [stdout |-> Unset, stderr |-> Unset, returncode |-> 0,
     spawned |-> FALSE, exc |-> FALSE]

(***************************************************************************)
(* orchestrator_comm.py: the orchestrator client.                          *)
(***************************************************************************)
\* What the middleware's handle_request does with a request: it raises, or
\* it returns the reply text.
Replies ==
    { "",
      "Nothing to run.",
      "Run this:\n" \o Fence \o "bash\nls -l\n" \o Fence,
      Fence \o "\n \n" \o Fence,
      "First " \o Fence \o "sh\necho hi\n" \o Fence \o " then "
          \o Fence \o "\nfalse\n" \o Fence }

EngineBehaviours ==
    {[raises |-> TRUE, reply |-> ""]}
        \cup {[raises |-> FALSE, reply |-> r] : r \in Replies}

\* final_message with else in place of elif not final_message
final_message_placeholder_overwrites(msg, system_info_json) ==
    LET facts == IF Truthy(system_info_json) /\ system_info_json # "{}"
                 THEN "System Information:\n" \o Fence \o "json\n"
                      \o system_info_json \o "\n" \o Fence \o "\n---"
                 ELSE ""
    IN  IF Truthy(msg)
        THEN (IF facts # "" THEN facts \o "\nUser Context/Message:\n" ELSE facts)
             \o msg
        ELSE "Initial request."

\* final_message without the test system_info_json != "{}"
final_message_embeds_empty_record(msg, system_info_json) ==
    LET facts == IF Truthy(system_info_json)
                 THEN "System Information:\n" \o Fence \o "json\n"
                      \o system_info_json \o "\n" \o Fence \o "\n---"
                 ELSE ""
    IN  IF Truthy(msg)
        THEN (IF facts # "" THEN facts \o "\nUser Context/Message:\n" ELSE facts)
             \o msg
        ELSE IF facts = "" THEN "Initial request." ELSE facts

\* the message call_llm_workflow builds for the middleware
final_message(msg, system_info_json) ==
    LET facts == IF Truthy(system_info_json) /\ system_info_json # "{}"
                 THEN "System Information:\n" \o Fence \o "json\n"
                      \o system_info_json \o "\n" \o Fence \o "\n---"
                 ELSE ""
    IN  IF Truthy(msg)
        THEN (IF facts # "" THEN facts \o "\nUser Context/Message:\n" ELSE facts)
             \o msg
        ELSE IF facts = "" THEN "Initial request." ELSE facts

\* call_llm_workflow without the try/except around the middleware call
call_llm_workflow_no_try(func, product, operation, mode, msg, system_info_json, eng) ==
    IF func = None
    THEN [value |-> None, sent |-> None, exc |-> FALSE]
    ELSE LET m == final_message(msg, system_info_json)
         IN  IF eng.raises
             THEN [value |-> None, sent |-> m, exc |-> TRUE]
             ELSE [value |-> eng.reply, sent |-> m, exc |-> FALSE]

\* call_llm_workflow(...) when _middleware_func is func and the middleware
\* behaves as eng.  value: the value returned; sent: the message handed to
\* the middleware (None when the middleware is not called); exc: an
\* exception left call_llm_workflow.
call_llm_workflow(func, product, operation, mode, msg, system_info_json, eng) ==
    IF func = None
    THEN [value |-> None, sent |-> None, exc |-> FALSE]
    ELSE LET m == final_message(msg, system_info_json)
         IN  IF eng.raises
             THEN [value |-> None, sent |-> m, exc |-> FALSE]
             ELSE [value |-> eng.reply, sent |-> m, exc |-> FALSE]

(***************************************************************************)
(* menu.py                                                                 *)
(***************************************************************************)
MenuChoices == {"0", "1", "2", "3"}

\* display_and_select_use_case() when the user enters choice
display_and_select_use_case(choice) ==
    CASE choice = "1" -> <<"Splunk-OTel-Collector", "Install">>
      [] choice = "2" -> <<"Splunk-OTel-Collector", "Uninstall">>
      [] choice = "3" -> <<"curl", "Install">>
      [] OTHER -> <<None, None>>

(***************************************************************************)
(* cli_ctrl.py: the helpers of the session loop.  Each returns             *)
(* <<next_mode, next_message, exit_flag>>.                                 *)
(***************************************************************************)
\* the clarify prompt keeps this many characters of the input
MaxInputLen == 256

\* _handle_no_code_blocks returning no mode for a non-empty input
handle_no_code_blocks_unlabelled(user_input) ==
    IF ~Truthy(user_input)
    THEN <<None, None, TRUE>>
    ELSE <<None, Prefix(user_input, MaxInputLen), FALSE>>

\* _handle_no_code_blocks that does not stop on an empty input
handle_no_code_blocks_keeps_going(user_input) ==
    <<"chat", Prefix(user_input, MaxInputLen), FALSE>>

\* _handle_no_code_blocks without the [:256] slice
handle_no_code_blocks_untruncated(user_input) ==
    IF ~Truthy(user_input)
    THEN <<None, None, TRUE>>
    ELSE <<"chat", user_input, FALSE>>

\* _handle_no_code_blocks going to chat without a message
handle_no_code_blocks_without_message(user_input) ==
    IF ~Truthy(user_input)
    THEN <<None, None, TRUE>>
    ELSE <<"chat", None, FALSE>>

\* _handle_no_code_blocks() when the user types user_input at the prompt
handle_no_code_blocks(user_input) ==
    IF ~Truthy(user_input)
    THEN <<None, None, TRUE>>
    ELSE <<"chat", Prefix(user_input, MaxInputLen), FALSE>>

\* _handle_command_success reporting the outputs without the command
handle_command_success_without_command(stdout, stderr, executed_command) ==
    <<"execute",
      "The following command executed successfully:\n"
      \o "Output (stdout):\n"
      \o (IF Truthy(stdout) THEN stdout ELSE "[No stdout]") \o "\n"
      \o "Output (stderr):\n"
      \o (IF Truthy(stderr) THEN stderr ELSE "[No stderr]") \o "\n\n"
      \o "Please provide the next command or instruction based on this result.",
      FALSE>>

handle_command_success(stdout, stderr, executed_command) ==
    <<"execute",
      "The following command executed successfully:\n"
      \o Fence \o "\n" \o executed_command \o "\n" \o Fence \o "\n"
      \o "Output (stdout):\n"
      \o (IF Truthy(stdout) THEN stdout ELSE "[No stdout]") \o "\n"
      \o "Output (stderr):\n"
      \o (IF Truthy(stderr) THEN stderr ELSE "[No stderr]") \o "\n\n"
      \o "Please provide the next command or instruction based on this result.",
      FALSE>>

\* _handle_command_error reporting the outputs without the exit code
handle_command_error_without_code(stdout, stderr, returncode, executed_command) ==
    <<"fix",
      "The following command failed:\n"
      \o Fence \o "\n" \o executed_command \o "\n" \o Fence \o "\n"
      \o "Output (stdout):\n"
      \o (IF Truthy(stdout) THEN stdout ELSE "[No stdout]") \o "\n"
      \o "Error Output (stderr):\n"
      \o (IF Truthy(stderr) THEN stderr ELSE "[No stderr]") \o "\n\n"
      \o "Please provide corrected commands or troubleshooting steps.",
      FALSE>>

handle_command_error(stdout, stderr, returncode, executed_command) ==
    <<"fix",
      "The following command failed:\n"
      \o Fence \o "\n" \o executed_command \o "\n" \o Fence \o "\n"
      \o "Exit Code: " \o ToString(returncode) \o "\n"
      \o "Output (stdout):\n"
      \o (IF Truthy(stdout) THEN stdout ELSE "[No stdout]") \o "\n"
      \o "Error Output (stderr):\n"
      \o (IF Truthy(stderr) THEN stderr ELSE "[No stderr]") \o "\n\n"
      \o "Please provide corrected commands or troubleshooting steps.",
      FALSE>>

\* the test returncode == 0 written as returncode >= 0
handle_command_outcome_sign(result, command_text) ==
    IF result.returncode >= 0
    THEN handle_command_success(result.stdout, result.stderr, command_text)
    ELSE handle_command_error(result.stdout, result.stderr,
                              result.returncode, command_text)

\* the part of _handle_command_confirmation that follows run_command
handle_command_outcome(result, command_text) ==
    IF result.returncode = 0
    THEN handle_command_success(result.stdout, result.stderr, command_text)
    ELSE handle_command_error(result.stdout, result.stderr,
                              result.returncode, command_text)

(***************************************************************************)
(* cli_ctrl.py: cli_entry_point.                                           *)
(***************************************************************************)
VARIABLES
    pc,                 \* position in cli_entry_point
    middleware_func,    \* orchestrator_comm._middleware_func, set at import
    system_info_json,
    selected_product,
    selected_operation,
    current_mode,
    user_message,
    exit_app,
    llm_response,
    code_blocks,
    command_text,       \* local of _handle_command_confirmation
    result,             \* what run_command returned in this iteration
    \* history of the run
    iter,               \* number of iterations started
    engine_calls,       \* number of calls of call_llm_workflow
    request,            \* the arguments and the message of the last call
    error_msgs,         \* number of "Failed to get response" messages
    events,             \* what happened in the current iteration, in order
    prev_events,        \* what happened in the iteration before
    shown,              \* the command displayed in this iteration
    executed,           \* the command handed to run_command in this iteration
    clarify_input,      \* the text typed at the last clarify prompt
    engine,             \* how the middleware behaved in the last call
    detect_failed,      \* get_system_info raised
    \* direct calls of the leaf functions
    unit_cmd,           \* the text a leaf function is called on
    unit_result,        \* what run_command returned
    unit_text,          \* what successive extract_command_text calls returned
    unit_blocks         \* the blocks a reply text was put together from

vars ==
    <<pc, middleware_func, system_info_json, selected_product,
      selected_operation, current_mode, user_message, exit_app, llm_response,
      code_blocks, command_text, result, iter, engine_calls, request,
      error_msgs, events, prev_events, shown, executed, clarify_input, engine,
      detect_failed, unit_cmd, unit_result, unit_text, unit_blocks>>

session == <<current_mode, user_message, exit_app>>
context == <<system_info_json, selected_product, selected_operation>>
unit == <<unit_cmd, unit_result, unit_text, unit_blocks>>

Modes == {"execute", "fix", "chat"}

\* json.dumps of the dictionary get_system_info returns
SysInfoJson == "{\"os_info\": {\"system\": \"Linux\"}}"

\* the texts typed at the clarify prompt
UserInputs ==
    {"", " ", "why?", Rep("a", MaxInputLen), Rep("a", MaxInputLen - 1) \o "b"}
        \cup {Rep("a", MaxInputLen) \o Rep("b", k) : k \in 1..MaxOver}

NoRequest ==
    [product |-> Unset, operation |-> Unset, mode |-> Unset, msg |-> Unset,
     system_info_json |-> Unset, sent |-> Unset]

NoEngine == [raises |-> FALSE, reply |-> Unset]

Init ==
    /\ pc = "detect"
    /\ middleware_func \in {None, "handle_request"}
    /\ system_info_json = Unset
    /\ selected_product = Unset
    /\ selected_operation = Unset
    /\ current_mode = Unset
    /\ user_message = Unset
    /\ exit_app = FALSE
    /\ llm_response = Unset
    /\ code_blocks = << >>
    /\ command_text = Unset
    /\ result = NoResult
    /\ iter = 0
    /\ engine_calls = 0
    /\ request = NoRequest
    /\ error_msgs = 0
    /\ events = << >>
    /\ prev_events = << >>
    /\ shown = None
    /\ executed = None
    /\ clarify_input = Unset
    /\ engine = NoEngine
    /\ detect_failed = FALSE
    /\ unit_cmd = ""
    /\ unit_result = NoResult
    /\ unit_text = << >>
    /\ unit_blocks = << >>

\* lines 131-142: system detection; a failure degrades to "{}"
SystemDetection ==
    /\ pc = "detect"
    /\ \E raises \in BOOLEAN :
        /\ system_info_json' = IF raises THEN "{}" ELSE SysInfoJson
        /\ detect_failed' = raises
    /\ pc' = "menu"
    /\ UNCHANGED <<middleware_func, selected_product, selected_operation,
                   session, llm_response, code_blocks, command_text, result,
                   iter, engine_calls, request, error_msgs, events,
                   prev_events, shown, executed, clarify_input, engine, unit>>

\* the menu without the test "if not selected_product": the loop starts
\* whatever was chosen
SelectUseCase_without_exit ==
    /\ pc = "menu"
    /\ \E choice \in MenuChoices :
        LET sel == display_and_select_use_case(choice)
        IN  /\ selected_product' = sel[1]
            /\ selected_operation' = sel[2]
            /\ pc' = "loop"
            /\ current_mode' = "execute"
            /\ user_message' = None
            /\ exit_app' = FALSE
    /\ UNCHANGED <<middleware_func, system_info_json, llm_response,
                   code_blocks, command_text, result, iter, engine_calls,
                   request, error_msgs, events, prev_events, shown, executed,
                   clarify_input, engine, detect_failed, unit>>

\* lines 144-154: the menu; exit at the menu is sys.exit(0), otherwise the
\* session starts in mode execute with no message
SelectUseCase ==
    /\ pc = "menu"
    /\ \E choice \in MenuChoices :
        LET sel == display_and_select_use_case(choice)
        IN  /\ selected_product' = sel[1]
            /\ selected_operation' = sel[2]
            /\ IF ~Truthy(sel[1])
               THEN /\ pc' = "sys_exit"
                    /\ UNCHANGED session
               ELSE /\ pc' = "loop"
                    /\ current_mode' = "execute"
                    /\ user_message' = None
                    /\ exit_app' = FALSE
    /\ UNCHANGED <<middleware_func, system_info_json, llm_response,
                   code_blocks, command_text, result, iter, engine_calls,
                   request, error_msgs, events, prev_events, shown, executed,
                   clarify_input, engine, detect_failed, unit>>

\* a loop that does not test exit_app
LoopTest_ignoring_flag ==
    /\ pc = "loop"
    /\ iter < MaxIter
    /\ pc' = "call"
    /\ iter' = iter + 1
    /\ prev_events' = events
    /\ events' = << >>
    /\ shown' = None
    /\ executed' = None
    /\ result' = NoResult
    /\ UNCHANGED <<middleware_func, context, session, llm_response,
                   code_blocks, command_text, engine_calls, request,
                   error_msgs, clarify_input, engine, detect_failed, unit>>

\* line 156: while not exit_app
LoopTest ==
    /\ pc = "loop"
    /\ IF ~exit_app
       THEN /\ iter < MaxIter
            /\ pc' = "call"
            /\ iter' = iter + 1
            /\ prev_events' = events
            /\ events' = << >>
            /\ shown' = None
            /\ executed' = None
            /\ result' = NoResult
       ELSE /\ pc' = "exited"
            /\ UNCHANGED <<iter, prev_events, events, shown, executed, result>>
    /\ UNCHANGED <<middleware_func, context, session, llm_response,
                   code_blocks, command_text, engine_calls, request,
                   error_msgs, clarify_input, engine, detect_failed, unit>>

\* the call made with the initial mode and message in place of the
\* session's current_mode and user_message
CallOrchestrator_initial_session ==
    /\ pc = "call"
    /\ \E eng \in EngineBehaviours :
        LET r == call_llm_workflow(middleware_func, selected_product,
                                   selected_operation, "execute",
                                   None, system_info_json, eng)
        IN  /\ engine' = eng
            /\ request' = [product |-> selected_product,
                           operation |-> selected_operation,
                           mode |-> "execute", msg |-> None,
                           system_info_json |-> system_info_json,
                           sent |-> r.sent]
            /\ IF r.exc
               THEN /\ pc' = "crashed"
                    /\ UNCHANGED llm_response
               ELSE /\ pc' = "response"
                    /\ llm_response' = r.value
    /\ engine_calls' = engine_calls + 1
    /\ events' = Append(events, "call")
    /\ UNCHANGED <<middleware_func, context, session, code_blocks,
                   command_text, result, iter, error_msgs, prev_events, shown,
                   executed, clarify_input, detect_failed, unit>>

\* lines 158-167: the call of the orchestrator client
CallOrchestrator ==
    /\ pc = "call"
    /\ \E eng \in EngineBehaviours :
        LET r == call_llm_workflow(middleware_func, selected_product,
                                   selected_operation, current_mode,
                                   user_message, system_info_json, eng)
        IN  /\ engine' = eng
            /\ request' = [product |-> selected_product,
                           operation |-> selected_operation,
                           mode |-> current_mode, msg |-> user_message,
                           system_info_json |-> system_info_json,
                           sent |-> r.sent]
            /\ IF r.exc
               THEN /\ pc' = "crashed"
                    /\ UNCHANGED llm_response
               ELSE /\ pc' = "response"
                    /\ llm_response' = r.value
    /\ engine_calls' = engine_calls + 1
    /\ events' = Append(events, "call")
    /\ UNCHANGED <<middleware_func, context, session, code_blocks,
                   command_text, result, iter, error_msgs, prev_events, shown,
                   executed, clarify_input, detect_failed, unit>>

\* a failed call that ends the loop the way the user's exit does: flag set,
\* mode and message cleared
CommunicationFailure_clearing ==
    /\ pc = "response"
    /\ llm_response = None
    /\ error_msgs' = error_msgs + 1
    /\ events' = Append(events, "error")
    /\ current_mode' = None
    /\ user_message' = None
    /\ exit_app' = TRUE
    /\ pc' = "exited"
    /\ UNCHANGED <<middleware_func, context, llm_response,
                   code_blocks, command_text, result, iter, engine_calls,
                   request, prev_events, shown, executed, clarify_input,
                   engine, detect_failed, unit>>

\* the test "if not llm_response" in place of "if llm_response is None"
CommunicationFailure_on_falsy ==
    /\ pc = "response"
    /\ ~Truthy(llm_response)
    /\ error_msgs' = error_msgs + 1
    /\ events' = Append(events, "error")
    /\ pc' = "exited"
    /\ UNCHANGED <<middleware_func, context, session, llm_response,
                   code_blocks, command_text, result, iter, engine_calls,
                   request, prev_events, shown, executed, clarify_input,
                   engine, detect_failed, unit>>

\* a failed call followed by continue instead of break
CommunicationFailure_retry ==
    /\ pc = "response"
    /\ llm_response = None
    /\ error_msgs' = error_msgs + 1
    /\ events' = Append(events, "error")
    /\ pc' = "loop"
    /\ UNCHANGED <<middleware_func, context, session, llm_response,
                   code_blocks, command_text, result, iter, engine_calls,
                   request, prev_events, shown, executed, clarify_input,
                   engine, detect_failed, unit>>

\* lines 169-172: a failed call is reported once and the loop is left
CommunicationFailure ==
    /\ pc = "response"
    /\ llm_response = None
    /\ error_msgs' = error_msgs + 1
    /\ events' = Append(events, "error")
    /\ pc' = "exited"
    /\ UNCHANGED <<middleware_func, context, session, llm_response,
                   code_blocks, command_text, result, iter, engine_calls,
                   request, prev_events, shown, executed, clarify_input,
                   engine, detect_failed, unit>>

\* the reply handled without the test "if not command_text"
HandleReply_without_blank_test ==
    /\ pc = "response"
    /\ llm_response # None
    /\ LET blocks == extract_code_blocks(llm_response)
       IN  /\ code_blocks' = blocks
           /\ IF blocks = << >>
              THEN /\ events' = Append(events, "parse")
                   /\ pc' = "clarify"
                   /\ UNCHANGED <<command_text, shown>>
              ELSE LET text == extract_command_text(blocks[1])
                   IN  /\ command_text' = text
                       /\ events' = events \o <<"parse", "show">>
                       /\ shown' = text
                       /\ pc' = "confirm"
    /\ UNCHANGED <<middleware_func, context, session, llm_response, result,
                   iter, engine_calls, request, error_msgs, prev_events,
                   executed, clarify_input, engine, detect_failed, unit>>

\* the reply handled with code_blocks[-1] in place of code_blocks[0]
HandleReply_last_block ==
    /\ pc = "response"
    /\ llm_response # None
    /\ LET blocks == extract_code_blocks(llm_response)
       IN  /\ code_blocks' = blocks
           /\ IF blocks = << >>
              THEN /\ events' = Append(events, "parse")
                   /\ pc' = "clarify"
                   /\ UNCHANGED <<command_text, shown>>
              ELSE LET text == extract_command_text(blocks[Len(blocks)])
                   IN  /\ command_text' = text
                       /\ IF ~Truthy(text)
                          THEN /\ events' = events \o <<"parse", "warn">>
                               /\ pc' = "clarify"
                               /\ UNCHANGED shown
                          ELSE /\ events' = events \o <<"parse", "show">>
                               /\ shown' = text
                               /\ pc' = "confirm"
    /\ UNCHANGED <<middleware_func, context, session, llm_response, result,
                   iter, engine_calls, request, error_msgs, prev_events,
                   executed, clarify_input, engine, detect_failed, unit>>

\* lines 174-191 up to the first prompt, with lines 49-57 of
\* _handle_command_confirmation: the reply is parsed and displayed, and the
\* first block's command, when there is one, is shown
HandleReply ==
    /\ pc = "response"
    /\ llm_response # None
    /\ LET blocks == extract_code_blocks(llm_response)
       IN  /\ code_blocks' = blocks
           /\ IF blocks = << >>
              THEN /\ events' = Append(events, "parse")
                   /\ pc' = "clarify"
                   /\ UNCHANGED <<command_text, shown>>
              ELSE LET text == extract_command_text(blocks[1])
                   IN  /\ command_text' = text
                       /\ IF ~Truthy(text)
                          THEN /\ events' = events \o <<"parse", "warn">>
                               /\ pc' = "clarify"
                               /\ UNCHANGED shown
                          ELSE /\ events' = events \o <<"parse", "show">>
                               /\ shown' = text
                               /\ pc' = "confirm"
    /\ UNCHANGED <<middleware_func, context, session, llm_response, result,
                   iter, engine_calls, request, error_msgs, prev_events,
                   executed, clarify_input, engine, detect_failed, unit>>

\* a confirmation prompt whose answer is not tested
Confirm_ignoring_answer ==
    /\ pc = "confirm"
    /\ \E yes \in BOOLEAN :
        /\ events' = Append(events, IF yes THEN "yes" ELSE "no")
        /\ pc' = "run"
    /\ UNCHANGED <<middleware_func, context, session, llm_response,
                   code_blocks, command_text, result, iter, engine_calls,
                   request, error_msgs, prev_events, shown, executed,
                   clarify_input, engine, detect_failed, unit>>

\* line 60: click.confirm, default no
Confirm ==
    /\ pc = "confirm"
    /\ \E yes \in BOOLEAN :
        IF yes
        THEN /\ events' = Append(events, "yes")
             /\ pc' = "run"
        ELSE /\ events' = Append(events, "no")
             /\ pc' = "clarify"
    /\ UNCHANGED <<middleware_func, context, session, llm_response,
                   code_blocks, command_text, result, iter, engine_calls,
                   request, error_msgs, prev_events, shown, executed,
                   clarify_input, engine, detect_failed, unit>>

\* the confirmed block handed to run_command as it came from the reply, in
\* place of the command_text that was displayed
RunConfirmed_raw_block ==
    /\ pc = "run"
    /\ \E os \in OsBehaviours :
        LET r == run_command(code_blocks[1], os)
            next == handle_command_outcome(r, code_blocks[1])
        IN  /\ result' = r
            /\ executed' = code_blocks[1]
            /\ events' = Append(events, "run")
            /\ IF r.exc
               THEN /\ pc' = "crashed"
                    /\ UNCHANGED session
               ELSE /\ pc' = "loop"
                    /\ current_mode' = next[1]
                    /\ user_message' = next[2]
                    /\ exit_app' = next[3]
    /\ UNCHANGED <<middleware_func, context, llm_response, code_blocks,
                   command_text, iter, engine_calls, request, error_msgs,
                   prev_events, shown, clarify_input, engine, detect_failed,
                   unit>>

\* lines 66-75 and 189: the confirmed command is run and the next mode and
\* message are derived from its outcome
RunConfirmed ==
    /\ pc = "run"
    /\ \E os \in OsBehaviours :
        LET r == run_command(command_text, os)
            next == handle_command_outcome(r, command_text)
        IN  /\ result' = r
            /\ executed' = command_text
            /\ events' = Append(events, "run")
            /\ IF r.exc
               THEN /\ pc' = "crashed"
                    /\ UNCHANGED session
               ELSE /\ pc' = "loop"
                    /\ current_mode' = next[1]
                    /\ user_message' = next[2]
                    /\ exit_app' = next[3]
    /\ UNCHANGED <<middleware_func, context, llm_response, code_blocks,
                   command_text, iter, engine_calls, request, error_msgs,
                   prev_events, shown, clarify_input, engine, detect_failed,
                   unit>>

\* lines 24-33 with 185/189: the clarify prompt
Clarify ==
    /\ pc = "clarify"
    /\ \E user_input \in UserInputs :
        LET next == handle_no_code_blocks(user_input)
        IN  /\ clarify_input' = user_input
            /\ current_mode' = next[1]
            /\ user_message' = next[2]
            /\ exit_app' = next[3]
    /\ events' = Append(events, "clarify")
    /\ pc' = "loop"
    /\ UNCHANGED <<middleware_func, context, llm_response, code_blocks,
                   command_text, result, iter, engine_calls, request,
                   error_msgs, prev_events, shown, executed, engine,
                   detect_failed, unit>>

Next ==
    \/ SystemDetection
    \/ SelectUseCase
    \/ LoopTest
    \/ CallOrchestrator
    \/ CommunicationFailure
    \/ HandleReply
    \/ Confirm
    \/ RunConfirmed
    \/ Clarify

Spec == Init /\ [][Next]_vars

(***************************************************************************)
(* The command runner called directly, on every short command string.      *)
(***************************************************************************)
CmdAlphabet == {" ", "\t", "\n", "\f", "a", "\""}

RECURSIVE Strings(_)
\* the texts of at most n characters of CmdAlphabet
Strings(n) ==
    IF n = 0 THEN {""}
    ELSE LET S == Strings(n - 1)
         IN  S \cup {s \o c : s \in S, c \in CmdAlphabet}

RunInit ==
    /\ pc = "unit"
    /\ middleware_func = None
    /\ system_info_json = Unset
    /\ selected_product = Unset
    /\ selected_operation = Unset
    /\ current_mode = Unset
    /\ user_message = Unset
    /\ exit_app = FALSE
    /\ llm_response = Unset
    /\ code_blocks = << >>
    /\ command_text = Unset
    /\ result = NoResult
    /\ iter = 0
    /\ engine_calls = 0
    /\ request = NoRequest
    /\ error_msgs = 0
    /\ events = << >>
    /\ prev_events = << >>
    /\ shown = None
    /\ executed = None
    /\ clarify_input = Unset
    /\ engine = NoEngine
    /\ detect_failed = FALSE
    /\ unit_cmd \in Strings(MaxCmdLen)
    /\ unit_result = NoResult
    /\ unit_text = << >>
    /\ unit_blocks = << >>

\* run_command(unit_cmd)
UnitRun ==
    /\ pc = "unit"
    /\ \E os \in OsBehaviours : unit_result' = run_command(unit_cmd, os)
    /\ pc' = "unit_done"
    /\ UNCHANGED <<middleware_func, context, session, llm_response,
                   code_blocks, command_text, result, iter, engine_calls,
                   request, error_msgs, events, prev_events, shown, executed,
                   clarify_input, engine, detect_failed, unit_cmd, unit_text,
                   unit_blocks>>

RunNext == UnitRun

RunSpec == RunInit /\ [][RunNext]_vars

(***************************************************************************)
(* The leaf functions called directly.                                     *)
(***************************************************************************)
\* the variables of cli_entry_point before it starts
NotStarted ==
    /\ system_info_json = Unset
    /\ selected_product = Unset
    /\ selected_operation = Unset
    /\ current_mode = Unset
    /\ user_message = Unset
    /\ exit_app = FALSE
    /\ llm_response = Unset
    /\ code_blocks = << >>
    /\ command_text = Unset
    /\ result = NoResult
    /\ iter = 0
    /\ engine_calls = 0
    /\ request = NoRequest
    /\ error_msgs = 0
    /\ events = << >>
    /\ prev_events = << >>
    /\ shown = None
    /\ executed = None
    /\ clarify_input = Unset
    /\ engine = NoEngine
    /\ detect_failed = FALSE

TextAlphabet == {BT, " ", "\n", "a"}

RECURSIVE Texts(_)
\* the texts of at most n characters of TextAlphabet
Texts(n) ==
    IF n = 0 THEN {""}
    ELSE LET S == Texts(n - 1)
         IN  S \cup {s \o c : s \in S, c \in TextAlphabet}

TextInit ==
    /\ pc = "unit"
    /\ middleware_func = None
    /\ NotStarted
    /\ unit_cmd \in Texts(MaxTextLen)
    /\ unit_result = NoResult
    /\ unit_text = << >>
    /\ unit_blocks = << >>

\* extract_command_text(unit_cmd), then extract_command_text of the result
UnitExtract ==
    /\ pc = "unit"
    /\ unit_text' = Append(unit_text,
                           extract_command_text(IF unit_text = << >>
                                                THEN unit_cmd
                                                ELSE unit_text[Len(unit_text)]))
    /\ pc' = IF unit_text = << >> THEN "unit" ELSE "unit_done"
    /\ UNCHANGED <<middleware_func, context, session, llm_response,
                   code_blocks, command_text, result, iter, engine_calls,
                   request, error_msgs, events, prev_events, shown, executed,
                   clarify_input, engine, detect_failed, unit_cmd,
                   unit_result, unit_blocks>>

TextNext == UnitExtract

TextSpec == TextInit /\ [][TextNext]_vars

\* the messages and the system information call_llm_workflow is called with
CallMessages == {None, "", " ", "why?", "Exit Code: 1"}

CallFacts == {None, "", "{}", SysInfoJson}

CallInit ==
    /\ pc = "unit"
    /\ middleware_func \in {None, "handle_request"}
    /\ system_info_json \in CallFacts
    /\ \E choice \in MenuChoices \ {"0"} :
        /\ selected_product = display_and_select_use_case(choice)[1]
        /\ selected_operation = display_and_select_use_case(choice)[2]
    /\ current_mode \in Modes
    /\ user_message \in CallMessages
    /\ exit_app = FALSE
    /\ llm_response = Unset
    /\ code_blocks = << >>
    /\ command_text = Unset
    /\ result = NoResult
    /\ iter = 0
    /\ engine_calls = 0
    /\ request = NoRequest
    /\ error_msgs = 0
    /\ events = << >>
    /\ prev_events = << >>
    /\ shown = None
    /\ executed = None
    /\ clarify_input = Unset
    /\ engine = NoEngine
    /\ detect_failed = FALSE
    /\ unit_cmd = ""
    /\ unit_result = NoResult
    /\ unit_text = << >>
    /\ unit_blocks = << >>

\* call_llm_workflow(selected_product, selected_operation, current_mode,
\* user_message, system_info_json)
UnitCall ==
    /\ pc = "unit"
    /\ \E eng \in EngineBehaviours :
        LET r == call_llm_workflow(middleware_func, selected_product,
                                   selected_operation, current_mode,
                                   user_message, system_info_json, eng)
        IN  /\ engine' = eng
            /\ request' = [product |-> selected_product,
                           operation |-> selected_operation,
                           mode |-> current_mode, msg |-> user_message,
                           system_info_json |-> system_info_json,
                           sent |-> r.sent]
            /\ llm_response' = r.value
            /\ pc' = IF r.exc THEN "crashed" ELSE "unit_done"
    /\ engine_calls' = engine_calls + 1
    /\ UNCHANGED <<middleware_func, context, session, code_blocks,
                   command_text, result, iter, error_msgs, events,
                   prev_events, shown, executed, clarify_input,
                   detect_failed, unit>>

CallNext == UnitCall

CallSpec == CallInit /\ [][CallNext]_vars

\* Reply texts put together from prose and fenced blocks.  A block is the
\* opening delimiter, an optional language tag, optional blanks, a newline,
\* the content, optional white space and the closing delimiter.
ProseParts == {"Run this:\n", " then ", "use " \o BT \o "ls" \o BT \o " "}

BlockParts ==
    { Fence \o "bash\nls -l\n" \o Fence,
      Fence \o "\necho hi" \o Fence,
      Fence \o "sh \n\n" \o Fence,
      Fence \o "\nfalse\n " \o Fence,
      Fence \o "c++\nmake\n" \o Fence }

Parts ==
    {[block |-> FALSE, text |-> p] : p \in ProseParts}
        \cup {[block |-> TRUE, text |-> b] : b \in BlockParts}

RECURSIVE PartSeqs(_)
\* the sequences of at most n parts
PartSeqs(n) ==
    IF n = 0 THEN {<< >>}
    ELSE LET S == PartSeqs(n - 1)
         IN  S \cup {Append(q, part) : q \in S, part \in Parts}

RECURSIVE Join(_)
\* the text the parts make
Join(parts) ==
    IF parts = << >> THEN "" ELSE Head(parts).text \o Join(Tail(parts))

RECURSIVE BlocksOf(_)
\* the blocks among the parts, in order
BlocksOf(parts) ==
    IF parts = << >> THEN << >>
    ELSE (IF Head(parts).block THEN <<Head(parts).text>> ELSE << >>)
         \o BlocksOf(Tail(parts))

\* the first engine call of a session has returned the text
ParseInit ==
    /\ pc = "response"
    /\ middleware_func = "handle_request"
    /\ system_info_json = SysInfoJson
    /\ selected_product = "curl"
    /\ selected_operation = "Install"
    /\ current_mode = "execute"
    /\ user_message = None
    /\ exit_app = FALSE
    /\ \E parts \in PartSeqs(MaxParts) :
        /\ llm_response = Join(parts)
        /\ unit_blocks = BlocksOf(parts)
    /\ code_blocks = << >>
    /\ command_text = Unset
    /\ result = NoResult
    /\ iter = 1
    /\ engine_calls = 1
    /\ request = [product |-> "curl", operation |-> "Install",
                  mode |-> "execute", msg |-> None,
                  system_info_json |-> SysInfoJson,
                  sent |-> final_message(None, SysInfoJson)]
    /\ error_msgs = 0
    /\ events = <<"call">>
    /\ prev_events = << >>
    /\ shown = None
    /\ executed = None
    /\ clarify_input = Unset
    /\ engine = [raises |-> FALSE, reply |-> llm_response]
    /\ detect_failed = FALSE
    /\ unit_cmd = ""
    /\ unit_result = NoResult
    /\ unit_text = << >>

ParseNext == HandleReply

ParseSpec == ParseInit /\ [][ParseNext]_vars

(***************************************************************************)
(* Properties.                                                             *)
(***************************************************************************)
Has(e) == \E i \in 1..Len(events) : events[i] = e

Last(seq) == IF seq = << >> THEN "" ELSE seq[Len(seq)]

\* the session exists: cli_entry_point has reached the loop
SessionStarted == pc \in {"loop", "call", "response", "confirm", "run",
                          "clarify", "exited", "crashed"}

\* C1: a command is handed to the command runner only after it was shown
\* and the confirmation prompt of the same iteration was answered yes, and
\* it is the command that was shown; after the answer no, no command is run
\* in that iteration.
ExecutionIsGated ==
    /\ pc = "run" => Last(events) = "yes"
    /\ Has("run") <=> executed # None
    /\ executed # None =>
         /\ executed = shown
         /\ events = <<"call", "parse", "show", "yes", "run">>
    /\ Has("no") =>
         /\ executed = None
         /\ result = NoResult
         /\ pc \in {"clarify", "loop", "exited"}

ExecutionIsGatedWitness ==
    /\ pc = "loop"
    /\ executed = "ls -l"
    /\ result.spawned

\* C2: the next mode depends only on what happened in the iteration: exit
\* code 0 gives execute, a nonzero exit code gives fix, the clarify prompt
\* (no block, no command text, or a declined command) gives chat for a
\* non-empty input and ends the loop for an empty one.
ModeDerivation ==
    /\ [](pc = "loop" /\ iter >= 1 =>
            /\ Last(events) \in {"run", "clarify"}
            /\ Last(events) = "run" /\ result.returncode = 0 =>
                 current_mode = "execute" /\ ~exit_app
            /\ Last(events) = "run" /\ result.returncode # 0 =>
                 current_mode = "fix" /\ ~exit_app
            /\ Last(events) = "clarify" =>
                 /\ events \in {<<"call", "parse", "clarify">>,
                                <<"call", "parse", "warn", "clarify">>,
                                <<"call", "parse", "show", "no", "clarify">>}
                 /\ clarify_input # "" => current_mode = "chat" /\ ~exit_app
                 /\ clarify_input = "" => exit_app)
    /\ [][pc = "loop" /\ exit_app => pc' = "exited" /\ iter' = iter]_vars

\* the mode before the iteration (chat) differs from the one derived
ModeDerivationWitness ==
    /\ pc = "loop"
    /\ Last(events) = "run"
    /\ result.returncode = 0
    /\ request.mode = "chat"
    /\ current_mode = "execute"

\* C3: when the engine call returns None the loop is left in that
\* iteration after one error message: nothing is parsed, no prompt is shown,
\* no command is run and no further call is made.
UnavailableIsFatal ==
    /\ [](llm_response = None /\ pc # "response" =>
            /\ pc = "exited"
            /\ events = <<"call", "error">>
            /\ error_msgs = 1
            /\ shown = None
            /\ executed = None
            /\ ~exit_app)
    /\ [][llm_response = None =>
            /\ engine_calls' = engine_calls
            /\ iter' = iter
            /\ pc' = "exited"]_vars

UnavailableIsFatalWitness ==
    /\ pc = "exited"
    /\ llm_response = None
    /\ iter = 2
    /\ engine.raises

\* C4 (as stated): every exit from the loop happens with exit_app true, and
\* with exit_app true no iteration is in progress.
ExitOnlyWhenTerminated ==
    /\ pc = "exited" => exit_app
    /\ exit_app => pc \in {"loop", "exited"}

\* C4 (amended): the loop is left with exit_app true or through the break
\* that follows a failed engine call, exit_app still false; once exit_app is
\* true no further iteration starts.
ExitWhenTerminatedOrUnavailable ==
    /\ [](pc = "exited" => exit_app \/ (llm_response = None /\ ~exit_app))
    /\ [](exit_app => pc \in {"loop", "exited"})
    /\ [][exit_app => iter' = iter /\ engine_calls' = engine_calls
                      /\ exit_app']_vars

ExitWhenTerminatedOrUnavailableWitness ==
    /\ pc = "exited"
    /\ ~exit_app
    /\ llm_response = None

\* C5 (as stated): from the start of the session on, mode is one of
\* execute, fix, chat.
ModeAlwaysEnumerated ==
    SessionStarted => current_mode \in Modes

\* C5 (amended): mode is one of execute, fix, chat as long as the user has
\* not ended the session; after an empty clarify input it is None.
ModeEnumeratedUntilUserExit ==
    SessionStarted =>
        IF exit_app THEN current_mode = None ELSE current_mode \in Modes

ModeEnumeratedUntilUserExitWitness ==
    /\ pc = "call"
    /\ iter = 2
    /\ current_mode = "chat"
    /\ clarify_input = "why?"

\* C6: apart from the user's choice to stop, only a failed engine call ends
\* the session: no exception leaves the loop, a reply without a command
\* leads to the clarify prompt, a command that fails or cannot be launched
\* leads to a fix-mode report, a failed system detection leads to the menu.
OnlyTransportFailureEnds ==
    /\ pc # "crashed"
    /\ pc = "exited" =>
         \/ llm_response = None /\ Last(events) = "error"
         \/ exit_app /\ Last(events) = "clarify" /\ clarify_input = ""
    /\ Last(events) \in {"parse", "warn"} => pc = "clarify"
    /\ Has("run") /\ result.returncode # 0 =>
         /\ pc = "loop"
         /\ ~exit_app
         /\ current_mode = "fix"
         /\ Truthy(user_message)
    /\ detect_failed => system_info_json = "{}" /\ pc # "detect"

OnlyTransportFailureEndsWitness ==
    /\ pc = "call"
    /\ Last(prev_events) = "run"
    /\ current_mode = "fix"
    /\ In("Exit Code: -1", user_message)
    /\ detect_failed

\* C7 (as stated): an empty clarify input sets exit_app; a non-empty input
\* becomes the next message and the next mode is chat.
ClarifyInputBecomesMessage ==
    pc = "loop" /\ Last(events) = "clarify" =>
        IF clarify_input = ""
        THEN exit_app
        ELSE ~exit_app /\ current_mode = "chat" /\ user_message = clarify_input

\* C7 (amended): an empty clarify input sets exit_app and no further engine
\* call is made; the first 256 characters of a non-empty input become the
\* next message and the next mode is chat, and the next call of the engine
\* is made with that mode and message.
ClarifyInputPrefixBecomesMessage ==
    /\ [](pc = "loop" /\ Last(events) = "clarify" =>
            IF clarify_input = ""
            THEN exit_app
            ELSE /\ ~exit_app
                 /\ current_mode = "chat"
                 /\ Len(user_message) =
                      (IF Len(clarify_input) < 256 THEN Len(clarify_input)
                       ELSE 256)
                 /\ user_message = SubSeq(clarify_input, 1, Len(user_message)))
    /\ [](pc = "response" /\ Last(prev_events) = "clarify" =>
            /\ request.mode = "chat"
            /\ request.mode = current_mode
            /\ request.msg = user_message
            /\ request.sent # None => EndsWith(request.sent, user_message))
    /\ [][exit_app => engine_calls' = engine_calls]_vars

ClarifyInputPrefixBecomesMessageWitness ==
    /\ pc = "response"
    /\ Last(prev_events) = "clarify"
    /\ Len(clarify_input) > 256
    /\ request.sent # None

\* C8: a message typed by the user at the clarify prompt (the message of
\* mode chat) is at most 256 characters long.
UserMessageBounded ==
    /\ current_mode = "chat" => Len(user_message) <= 256
    /\ Last(events) = "clarify" /\ ~exit_app => Len(user_message) <= 256

UserMessageBoundedWitness ==
    /\ current_mode = "chat"
    /\ Len(clarify_input) > 256
    /\ Len(user_message) = 256

\* C9: call_llm_workflow never raises: when the middleware function was
\* not loaded or raises, it returns None.
ClientNeverRaises ==
    /\ pc # "crashed"
    /\ pc = "response" /\ (middleware_func = None \/ engine.raises) =>
         llm_response = None

ClientNeverRaisesWitness ==
    /\ pc = "response"
    /\ middleware_func # None
    /\ engine.raises
    /\ llm_response = None

\* C10: for a command string that is empty or holds only white space the
\* command runner returns exit code -1 and starts no child process.
BlankCommandRejected ==
    pc = "unit_done" /\ Strip(unit_cmd) = "" =>
        unit_result.returncode = -1 /\ ~unit_result.spawned

\* C11: after a confirmed command that exits with code 0 the next mode is
\* execute and the next message holds the executed command between
\* delimiters, the stdout the runner returned (or [No stdout] when it is
\* empty), the stderr (or [No stderr]) and the request for the next command.
SuccessReport ==
    pc = "loop" /\ Last(events) = "run" /\ result.returncode = 0 =>
        /\ current_mode = "execute"
        /\ ~exit_app
        /\ In(Fence \o "\n" \o executed \o "\n" \o Fence, user_message)
        /\ In("Output (stdout):\n"
              \o (IF result.stdout = "" THEN "[No stdout]" ELSE result.stdout)
              \o "\n", user_message)
        /\ In("Output (stderr):\n"
              \o (IF result.stderr = "" THEN "[No stderr]" ELSE result.stderr)
              \o "\n", user_message)
        /\ In("Please provide the next command", user_message)

\* echo hi exits 0 with stdout hi
SuccessReportWitness ==
    /\ pc = "loop"
    /\ executed = "echo hi"
    /\ result.returncode = 0
    /\ result.stdout = "hi"
    /\ current_mode = "execute"
    /\ In("echo hi", user_message)
    /\ In("[No stderr]", user_message)

\* C12: after a confirmed command that ends with a nonzero exit code N,
\* 127, 126 and -1 of a failed launch included, the next mode is fix and
\* the next message holds the command, "Exit Code: N", the stdout and the
\* stderr (or their markers when absent) and the request for corrected
\* commands.
FailureReport ==
    pc = "loop" /\ Last(events) = "run" /\ result.returncode # 0 =>
        /\ current_mode = "fix"
        /\ ~exit_app
        /\ In(Fence \o "\n" \o executed \o "\n" \o Fence, user_message)
        /\ In("Exit Code: " \o ToString(result.returncode) \o "\n",
              user_message)
        /\ In("Output (stdout):\n"
              \o (IF result.stdout \in {"", None} THEN "[No stdout]"
                  ELSE result.stdout)
              \o "\n", user_message)
        /\ In("Error Output (stderr):\n"
              \o (IF result.stderr \in {"", None} THEN "[No stderr]"
                  ELSE result.stderr)
              \o "\n", user_message)
        /\ In("Please provide corrected commands", user_message)

\* the executable was not found
FailureReportWitness ==
    /\ pc = "loop"
    /\ Last(events) = "run"
    /\ result.returncode = 127
    /\ result.stdout = None
    /\ current_mode = "fix"
    /\ In("Exit Code: 127", user_message)

\* C13: for a reply text without fenced block, the empty reply included,
\* extract_code_blocks returns the empty list and the iteration goes to the
\* clarify prompt: no command is shown for confirmation and none is run.
NoBlockLeadsToClarify ==
    pc # "response" /\ unit_blocks = << >> =>
        /\ code_blocks = << >>
        /\ pc = "clarify"
        /\ events = <<"call", "parse">>
        /\ shown = None
        /\ executed = None

\* prose with inline code and no block
NoBlockLeadsToClarifyWitness ==
    /\ pc = "clarify"
    /\ unit_blocks = << >>
    /\ In(BT, llm_response)
    /\ code_blocks = << >>

\* C14: for a reply text that holds N >= 1 fenced blocks,
\* extract_code_blocks returns exactly these N blocks, in order and
\* verbatim, delimiters included.
BlocksExtractedVerbatim ==
    pc # "response" /\ unit_blocks # << >> => code_blocks = unit_blocks

\* a pair of single backticks that encloses text
TickPair(s) ==
    \E i, j \in 1..Len(s) :
        /\ i + 1 < j
        /\ Char(s, i) = BT
        /\ Char(s, j) = BT
        /\ \A k \in (i + 1)..(j - 1) : Char(s, k) # BT

\* C15 (as stated): for an already-stripped command string without triple
\* backticks extract_command_text returns the string unchanged, and a
\* second application returns the same.
StrippedCommandUnchanged ==
    /\ Strip(unit_cmd) = unit_cmd
    /\ FindFence(unit_cmd, 1) = 0
    /\ unit_text # << >>
    => \A n \in 1..Len(unit_text) : unit_text[n] = unit_cmd

\* C15 (amended): the same for an already-stripped command string that
\* holds neither triple backticks nor text enclosed in a pair of single
\* backticks.
StrippedPlainCommandUnchanged ==
    /\ Strip(unit_cmd) = unit_cmd
    /\ FindFence(unit_cmd, 1) = 0
    /\ ~TickPair(unit_cmd)
    /\ unit_text # << >>
    => \A n \in 1..Len(unit_text) : unit_text[n] = unit_cmd

\* a command with a lone backtick, extracted twice
StrippedPlainCommandUnchangedWitness ==
    /\ pc = "unit_done"
    /\ unit_cmd = "a" \o BT \o "a a"
    /\ unit_text = <<unit_cmd, unit_cmd>>

UseCases == {display_and_select_use_case(c) : c \in MenuChoices \ {"0"}}

Count(seq, e) == Cardinality({i \in 1..Len(seq) : seq[i] = e})

\* C16: after exit is chosen at the menu the program shuts down before the
\* loop begins: no iteration starts, the engine is never called, nothing is
\* prompted, shown or run, and no further step is taken; otherwise the loop
\* starts in mode execute with no message and every engine request carries
\* the selected (product, operation) pair, which is one of the use cases.
MenuExitBeforeLoop ==
    /\ [](pc = "sys_exit" =>
            /\ ~Truthy(selected_product)
            /\ iter = 0
            /\ engine_calls = 0
            /\ request = NoRequest
            /\ events = << >> /\ prev_events = << >>
            /\ shown = None /\ executed = None /\ result = NoResult
            /\ clarify_input = Unset)
    /\ [][pc # "sys_exit"]_vars
    /\ [](SessionStarted =>
            /\ <<selected_product, selected_operation>> \in UseCases
            /\ iter = 0 => current_mode = "execute" /\ user_message = None
            /\ request # NoRequest =>
                 /\ request.product = selected_product
                 /\ request.operation = selected_operation)

MenuExitBeforeLoopWitness ==
    /\ pc = "sys_exit"
    /\ selected_product = None
    /\ middleware_func # None

\* C17: the message call_llm_workflow hands to the engine is never empty,
\* whatever the facts (absent, empty, "{}", non-trivial) and the pending
\* message (absent, empty, non-empty); it is the placeholder
\* "Initial request." exactly when the facts are absent or trivial and no
\* message is present.
EngineMessageNeverEmpty ==
    pc = "unit_done" /\ middleware_func # None =>
        /\ request.sent \notin {None, Unset, ""}
        /\ Len(request.sent) > 0
        /\ request.sent = "Initial request." <=>
             /\ system_info_json \in {None, "", "{}"}
             /\ user_message \in {None, ""}

EngineMessageNeverEmptyWitness ==
    /\ pc = "unit_done"
    /\ middleware_func # None
    /\ system_info_json = "{}"
    /\ user_message = ""
    /\ request.sent = "Initial request."

EmptyReplyIsNotFailure ==
    /\ llm_response = "" /\ Has("call") /\ pc \notin {"response", "crashed"} =>
         /\ ~Has("error")
         /\ code_blocks = << >>
         /\ SubSeq(events, 1, 2) = <<"call", "parse">>
         /\ pc \in {"clarify", "loop", "call", "exited"}
         /\ pc = "exited" => exit_app /\ Last(events) = "clarify"
         /\ ~Has("show") /\ ~Has("run")
    /\ Has("error") => llm_response = None /\ pc = "exited"

EmptyReplyIsNotFailureWitness ==
    /\ llm_response = ""
    /\ engine.reply = ""
    /\ ~engine.raises
    /\ events = <<"call", "parse">>
    /\ pc = "clarify"

\* C20: when system detection raises, the facts are the empty record "{}",
\* the session still reaches the menu and the loop, and every engine
\* request of the session is built without a facts block: it is the pending
\* message, or the placeholder when there is none.
FailedDetectionDegrades ==
    detect_failed =>
        /\ pc # "detect"
        /\ system_info_json = "{}"
        /\ request # NoRequest =>
             /\ request.system_info_json = "{}"
             /\ request.sent # None =>
                  /\ ~In("System Information", request.sent)
                  /\ ~In("{}", request.sent)
                  /\ request.sent = IF Truthy(request.msg) THEN request.msg
                                    ELSE "Initial request."

FailedDetectionDegradesWitness ==
    /\ detect_failed
    /\ iter = 2
    /\ pc = "response"
    /\ Truthy(request.msg)
    /\ request.sent = request.msg

\* C21: every engine request is built from the current session: the first
\* one carries mode execute and no message, each later one carries the mode
\* and message that the previous iteration derived (report of the run, or
\* the text typed at the clarify prompt), and product, operation and facts
\* are those chosen before the loop, the same in every request.
RequestBuiltFromSession ==
    /\ [](request # NoRequest =>
            /\ request.product = selected_product
            /\ request.operation = selected_operation
            /\ request.system_info_json = system_info_json
            /\ iter = 1 => request.mode = "execute" /\ request.msg = None
            /\ iter > 1 /\ pc = "response" =>
                 /\ Last(prev_events) \in {"run", "clarify"}
                 /\ Last(prev_events) = "clarify" =>
                      /\ request.mode = "chat"
                      /\ request.msg = Prefix(clarify_input, MaxInputLen)
                 /\ Last(prev_events) = "run" =>
                      /\ request.mode \in {"execute", "fix"}
                      /\ In("The following command", request.msg))
    /\ [][engine_calls' # engine_calls =>
            /\ request'.mode = current_mode
            /\ request'.msg = user_message
            /\ UNCHANGED <<current_mode, user_message>>]_vars
    /\ [][pc = "loop" => UNCHANGED <<current_mode, user_message>>]_vars
    /\ [][request # NoRequest =>
            /\ request'.product = request.product
            /\ request'.operation = request.operation
            /\ request'.system_info_json = request.system_info_json]_vars

RequestBuiltFromSessionWitness ==
    /\ iter = 2
    /\ pc = "response"
    /\ request.mode = "fix"
    /\ In("Exit Code: 1", request.msg)
    /\ request.product = selected_product

\* C22: the loop never hands the command runner an empty or whitespace-only
\* text: what run_command receives is the non-empty, whitespace-trimmed
\* text extracted from the first block of the current reply, so the runner
\* never answers "Empty command string" in a session; a block whose content
\* is blank leads to the warning and the clarify prompt instead.
RunnerNeverGivenBlank ==
    /\ pc \in {"confirm", "run"} \/ Has("run") =>
         /\ command_text \notin {"", None, Unset}
         /\ Strip(command_text) = command_text
         /\ \E i \in 1..Len(command_text) : Char(command_text, i) \notin WhiteSpace
         /\ command_text = extract_command_text(extract_code_blocks(llm_response)[1])
    /\ Has("run") =>
         /\ executed = command_text
         /\ shlex_split(executed).args # << >>
         /\ result.stderr # "Empty command string"
    /\ Has("warn") =>
         /\ Strip(extract_command_text(code_blocks[1])) = ""
         /\ ~Has("show") /\ ~Has("run") /\ executed = None

RunnerNeverGivenBlankWitness ==
    /\ pc = "loop"
    /\ Has("run")
    /\ executed = "ls -l"
    /\ In("bash\nls -l\n" \o Fence, llm_response)
    /\ result.spawned

\* C23: the text handed to the command runner is exactly the text that was
\* displayed before the confirmation prompt of the same iteration: it does
\* not change between display, confirmation and execution, and it is the
\* text quoted between fences in the success or failure report.
DisplayedIsExecutedIsReported ==
    /\ [](pc \in {"confirm", "run"} => shown = command_text /\ Has("show"))
    /\ [](Has("run") =>
            /\ executed = shown
            /\ executed = command_text
            /\ pc = "loop" =>
                 /\ SubSeq(user_message, 1, Len("The following command "))
                      = "The following command "
                 /\ In(":\n" \o Fence \o "\n" \o shown \o "\n" \o Fence \o "\n",
                       user_message))
    /\ [][(pc = "confirm" \/ pc = "run") =>
            /\ shown' = shown
            /\ command_text' = command_text
            /\ code_blocks' = code_blocks
            /\ llm_response' = llm_response]_vars
    /\ [][pc = "run" /\ pc' # "run" => executed' = shown]_vars

DisplayedIsExecutedIsReportedWitness ==
    /\ pc = "loop"
    /\ shown = "echo hi"
    /\ executed = "echo hi"
    /\ current_mode = "fix"
    /\ In("failed:\n" \o Fence \o "\necho hi\n" \o Fence, user_message)

\* C24: when an iteration after the first starts, mode and message agree:
\* chat comes with the non-empty text the user typed, cut to at most 256
\* characters; fix comes with the failure report of the command confirmed in
\* the previous iteration, whose exit code was not 0; execute comes with the
\* success report of the command confirmed in the previous iteration, whose
\* exit code was 0.  The message is absent in the first iteration only.
ModeAndMessageConsistent ==
    /\ pc = "loop" /\ ~exit_app /\ iter >= 1 =>
         /\ current_mode \in {"chat", "fix", "execute"}
         /\ user_message \notin {None, Unset, ""}
         /\ current_mode = "chat" =>
              /\ Last(events) = "clarify"
              /\ clarify_input # ""
              /\ user_message = Prefix(clarify_input, MaxInputLen)
              /\ Len(user_message) \in 1..256
         /\ current_mode = "fix" =>
              /\ SubSeq(events, Len(events) - 1, Len(events)) = <<"yes", "run">>
              /\ result.returncode # 0
              /\ user_message = handle_command_error(result.stdout,
                     result.stderr, result.returncode, executed)[2]
              /\ In("The following command failed:\n" \o Fence \o "\n"
                    \o shown \o "\n" \o Fence \o "\nExit Code: "
                    \o ToString(result.returncode) \o "\n", user_message)
         /\ current_mode = "execute" =>
              /\ SubSeq(events, Len(events) - 1, Len(events)) = <<"yes", "run">>
              /\ result.returncode = 0
              /\ user_message = handle_command_success(result.stdout,
                     result.stderr, executed)[2]
              /\ In("The following command executed successfully:\n" \o Fence
                    \o "\n" \o shown \o "\n" \o Fence \o "\n", user_message)
    /\ pc = "call" =>
         /\ iter = 1 => current_mode = "execute" /\ user_message = None
         /\ iter > 1 =>
              /\ user_message \notin {None, Unset, ""}
              /\ current_mode = "chat" <=> Last(prev_events) = "clarify"
              /\ current_mode \in {"fix", "execute"} <=> Last(prev_events) = "run"
              /\ current_mode = "fix" =>
                   SubSeq(user_message, 1, 29) = "The following command failed:"
              /\ current_mode = "execute" =>
                   SubSeq(user_message, 1, 44)
                       = "The following command executed successfully:"

ModeAndMessageConsistentWitness ==
    /\ pc = "call"
    /\ iter = 3
    /\ current_mode = "chat"
    /\ Len(user_message) = 256
    /\ Len(clarify_input) > 256
    /\ Last(prev_events) = "clarify"

\* C25: when the loop is left after a failed engine call the session is as
\* the failed request found it: mode and message are those of that request
\* and exit_app is still false; when it is left because the user pressed
\* Enter at the clarify prompt, exit_app is true and mode and message are
\* both None.
ExitPathsLeaveSession ==
    /\ [](pc = "exited" =>
            /\ Last(events) \in {"error", "clarify"}
            /\ Last(events) = "error" =>
                 /\ ~exit_app
                 /\ llm_response = None
                 /\ current_mode = request.mode
                 /\ user_message = request.msg
                 /\ current_mode \in Modes
                 /\ iter = 1 => current_mode = "execute" /\ user_message = None
                 /\ iter > 1 => user_message \notin {None, Unset, ""}
            /\ Last(events) = "clarify" =>
                 /\ exit_app
                 /\ clarify_input = ""
                 /\ current_mode = None
                 /\ user_message = None)
    /\ [][(pc = "response" /\ pc' = "exited") =>
            /\ current_mode' = current_mode
            /\ user_message' = user_message
            /\ exit_app' = exit_app
            /\ ~exit_app]_vars

ExitPathsLeaveSessionWitness ==
    /\ pc = "exited"
    /\ Last(events) = "error"
    /\ iter = 2
    /\ current_mode = "fix"
    /\ In("Exit Code", user_message)
    /\ ~exit_app

=============================================================================
